---- MODULE Spec2Model ----
(***************************************************************************)
(* Model of the pipe-delimited record parser (src/src/parser.py), of the   *)
(* encoding detector (src/ini_editor.py, src/ini_editor_refactored.py,     *)
(* src/src/parser.py), of the structural classifier                        *)
(* (src/src/parser_refactored.py), of the open-file flow of the INI        *)
(* editor (src/ini_editor.py, src/ini_editor_refactored.py), of its save   *)
(* and of its viewer frame, of the refactored parser and of the table      *)
(* views (src/src/item_table_view.py, item_table_view_refactored.py).      *)
(*                                                                         *)
(* A text is a sequence of one-character strings.  A record is a function  *)
(* from field names to texts (a Python dict).                             *)
(***************************************************************************)
EXTENDS Integers, Sequences, FiniteSets, TLC

VARIABLES
    text,        \* parse_pipe_text: the text argument
    headers,     \* parse_pipe_text: the headers argument (the schema)
    lines,       \* the lines left after the metadata line is removed
    idx,         \* position of the for loop over lines (1-based)
    buf_lines,   \* the accumulator
    records,     \* the records emitted so far
    last_rec,    \* index in records of the object last_rec refers to, 0 = None
    raised,      \* TRUE when an exception escaped parse_pipe_text
    pc,          \* position in parse_pipe_text
    variant,     \* which copy of the encoding detector runs
    cands,       \* per candidate encoding: the outcome of raw.decode(enc, 'replace')
    k,           \* position of the for loop over the encodings (1-based)
    best,        \* index of the retained candidate, 0 = None
    best_score,  \* score of the retained candidate (meaningful when best > 0)
    used,        \* index of the candidate returned, 0 = the latin-1 fallback
    dpc,         \* position in the detector
    ctext,       \* is_pipe_file (parser_refactored.py): the text argument
    cheaders,    \* is_pipe_file: the headers argument; <<>> stands for None and []
    clines,      \* is_pipe_file: the local list lines
    verdict,     \* is_pipe_file: the value returned
    cpc,         \* position in is_pipe_file
    app,         \* open_file: which copy of the editor runs
    imported,    \* open_file: data_parser and item_table_view were imported
    otext,       \* open_file: the decoded text of the file
    hfiles,      \* the header files of HEADERS_DIR whose name matches, in iterdir order
    hi,          \* position of the for loop over the header files (1-based)
    meta_cols,   \* the column count of the metadata line, None when there is none
    loaded,      \* what load_headers returned for the last header file read
    hdrs,        \* the schema after the adjustment to the column count
    chosen,      \* TRUE when a header file was accepted (chosen_headers is not None)
    passed,      \* the calls made to is_pipe_file and parse_pipe_text, with their schema
    view,        \* what the viewer frame shows: "none", "table", "ini" or "raw"
    table,       \* the headers and records handed to show_item_table
    opc,         \* position in open_file
    cur,         \* save_current: the file at the path of the current file
    tmpf,        \* save_current: the file at the .tmp path
    bakf,        \* save_current: the file at the .bak path
    oldc,        \* the file at the current path when save_current was called
    newc,        \* the text self.cfg.write produces
    spc,         \* position in save_current
    opens,       \* the views shown by the open_file calls so far, oldest first
    has_widgets, \* the attributes sections_lb, keys_tree and value_text are set
    widgets_live,\* the widgets those attributes refer to have not been destroyed
    wpc,         \* position in the opening of a file as INI
    bvariant,    \* which copy of the table view loads the records
    brecords,    \* the list records shared by the loader and the handlers
    tree,        \* the rows of the Treeview, top to bottom
    index,       \* the load index (start / self.index)
    batch_size,  \* the number of records inserted per tick
    cancelled,   \* the cancelled flag of the loader
    alive,       \* the tree and the progress label have not been destroyed
    bpc          \* position of the loader

vars == <<text, headers, lines, idx, buf_lines, records, last_rec, raised, pc,
          variant, cands, k, best, best_score, used, dpc,
          ctext, cheaders, clines, verdict, cpc,
          app, imported, otext, hfiles, hi, meta_cols, loaded, hdrs, chosen,
          passed, view, table, opc,
          cur, tmpf, bakf, oldc, newc, spc,
          opens, has_widgets, widgets_live, wpc,
          bvariant, brecords, tree, index, batch_size, cancelled, alive, bpc>>

parserVars == <<text, headers, lines, idx, buf_lines, records, last_rec, raised, pc>>
detectorVars == <<variant, cands, k, best, best_score, used, dpc>>
classifierVars == <<ctext, cheaders, clines, verdict, cpc>>
openVars == <<app, imported, otext, hfiles, hi, meta_cols, loaded, hdrs, chosen,
              passed, view, table, opc>>
saveVars == <<cur, tmpf, bakf, oldc, newc, spc>>
viewerVars == <<opens, has_widgets, widgets_live, wpc>>
batchVars == <<bvariant, brecords, tree, index, batch_size, cancelled, alive, bpc>>

----------------------------------------------------------------------------
(* Bounds of the model *)

\* longest text enumerated character by character
MaxLen == 4
\* largest number of line pieces of a generated text
MaxLines == 3
\* largest number of candidate encodings in the detector's list
MaxCands == 2
\* largest number of U+FFFD characters in a decode
MaxFffd == 1
\* most runs of equal lines in a text given to the structural classifier
MaxRuns == 2
\* most lines of a text opened in the editor
MaxOpenLines == 2
\* most header files with a matching name
MaxHeaderFiles == 1
\* longest text of a saved file
MaxContent == 2
\* most open_file calls in a session of the editor
MaxOpens == 4
\* most records handed to the table view
MaxRecords == 3
\* largest batch size of the loader
MaxBatch == 2

----------------------------------------------------------------------------
(* Characters *)

Pipe == "|"
BOM == "<U+FEFF>"
\* characters removed by str.strip() and matched by \s
Whitespace == {" ", "\t", "\n", "\r", "\f"}
\* characters matched by \d and [0-9]
Digit == {"0", "1", "2", "3", "4", "5", "6", "7", "8", "9"}
\* line boundaries of str.splitlines()
LineBoundary == {"\n", "\r", "\f"}

From(s, n) == SubSeq(s, n, Len(s))

\* str.count of a single character
Count(s, c) == Cardinality({j \in 1..Len(s) : s[j] = c})

\* number of leading characters of s that belong to set
RECURSIVE Span(_, _)
Span(s, set) ==
    IF s # <<>> /\ s[1] \in set THEN 1 + Span(From(s, 2), set) ELSE 0

RECURSIVE LStripSet(_, _)
LStripSet(s, set) ==
    IF s # <<>> /\ s[1] \in set THEN LStripSet(From(s, 2), set) ELSE s

RECURSIVE RStripSet(_, _)
RStripSet(s, set) ==
    IF s # <<>> /\ s[Len(s)] \in set THEN RStripSet(SubSeq(s, 1, Len(s) - 1), set) ELSE s

\* str.strip()
Strip(s) == RStripSet(LStripSet(s, Whitespace), Whitespace)

\* str.rstrip('\n')
RStripNewline(s) == RStripSet(s, {"\n"})

\* length of the first line of s, its terminator included (CR LF is one terminator)
RECURSIVE FirstLineLen(_)
FirstLineLen(s) ==
    IF s = <<>> THEN 0
    ELSE IF s[1] \in LineBoundary
         THEN IF s[1] = "\r" /\ Len(s) >= 2 /\ s[2] = "\n" THEN 2 ELSE 1
         ELSE 1 + FirstLineLen(From(s, 2))

\* str.splitlines(keepends=True)
RECURSIVE SplitLines(_)
SplitLines(s) ==
    IF s = <<>> THEN <<>>
    ELSE LET n == FirstLineLen(s)
         IN  <<SubSeq(s, 1, n)>> \o SplitLines(From(s, n + 1))

\* index of the first delimiter of s, 0 when there is none
RECURSIVE FirstPipe(_)
FirstPipe(s) ==
    IF s = <<>> THEN 0
    ELSE IF s[1] = Pipe THEN 1
         ELSE LET r == FirstPipe(From(s, 2)) IN IF r = 0 THEN 0 ELSE r + 1

\* str.split('|', maxsplit): a negative maxsplit means no limit
RECURSIVE Split(_, _)
Split(s, maxsplit) ==
    LET p == FirstPipe(s)
    IN  IF maxsplit = 0 \/ p = 0 THEN <<s>>
        ELSE <<SubSeq(s, 1, p - 1)>> \o Split(From(s, p + 1), maxsplit - 1)

\* ''.join(buf_lines)
RECURSIVE Join(_)
Join(ls) == IF ls = <<>> THEN <<>> ELSE ls[1] \o Join(From(ls, 2))

\* re.match(r'^\s*\d+\|', line)
NewRecMatch(line) ==
    LET a == From(line, Span(line, Whitespace) + 1)
        d == Span(a, Digit)
    IN  d >= 1 /\ Len(a) > d /\ a[d + 1] = Pipe

\* re.match(r'^[\|\s]*V\.[0-9]+\|[0-9]+', s)
MetaMatch(s) ==
    LET a  == From(s, Span(s, Whitespace \cup {Pipe}) + 1)
        b  == From(a, 3)
        d1 == Span(b, Digit)
        c  == From(b, d1 + 2)
    IN  /\ Len(a) >= 2 /\ a[1] = "V" /\ a[2] = "."
        /\ d1 >= 1
        /\ Len(b) > d1 /\ b[d1 + 1] = Pipe
        /\ Span(c, Digit) >= 1

----------------------------------------------------------------------------
(* parse_pipe_text of src/src/parser.py *)

\* str.lower() on the field names of the model
Lower(key) ==
    CASE key \in {"Tip", "tip", "TIP"} -> "tip"
      [] key = "Id" -> "id"
      [] key = "Name" -> "name"
      [] key = "Desc" -> "desc"
      [] OTHER -> key

\* the edge strip applied to a Tip value and to a continuation line
Clean(val) ==
    LET c0 == RStripNewline(val)
        c1 == IF c0 # <<>> /\ c0[1] = Pipe THEN From(c0, 2) ELSE c0
        c2 == IF c1 # <<>> /\ c1[Len(c1)] = Pipe THEN SubSeq(c1, 1, Len(c1) - 1) ELSE c1
    IN  c2

\* t.splitlines(keepends=True) minus a leading metadata line
KeepMetadataLine(t) == SplitLines(LStripSet(t, {BOM}))
InputLines(t) ==
    LET ls == SplitLines(LStripSet(t, {BOM}))
    IN  IF ls # <<>> /\ MetaMatch(Strip(ls[1])) THEN From(ls, 2) ELSE ls

\* parts += [''] * (expected_fields - len(parts))
NoPad(parts, n) == parts
Pad(parts, n) ==
    IF Len(parts) < n THEN parts \o [j \in 1..(n - Len(parts)) |-> <<>>] ELSE parts

\* buf.rstrip('\n').split('|', expected_separators), padded
PartsUnboundedSplit(buf, hs) == Pad(Split(RStripNewline(buf), -1), Len(hs))
Parts(buf, hs) == Pad(Split(RStripNewline(buf), Len(hs) - 1), Len(hs))

\* parts[i] raises IndexError for some i in range(expected_fields)
BuildRaises(parts, hs) == Len(parts) < Len(hs)

\* the value stored under a field name
FieldValue(key, val) == IF Lower(key) = "tip" THEN Clean(val) ELSE Strip(val)

\* the dict rec built by the loop over range(expected_fields): a repeated
\* field name keeps the value of its last occurrence
BuildRecord(parts, hs) ==
    [key \in {hs[i] : i \in 1..Len(hs)} |->
        LET i == CHOOSE j \in 1..Len(hs) :
                    /\ hs[j] = key
                    /\ \A j2 \in 1..Len(hs) : hs[j2] = key => j2 <= j
        IN  IF i <= Len(parts) THEN FieldValue(key, parts[i]) ELSE <<>>]

\* last_rec.get('Tip', '') or ''
GetTip(rec) == IF "Tip" \in DOMAIN rec THEN rec["Tip"] ELSE <<>>

\* last_rec['Tip'] = val
SetTip(rec, val) ==
    [key \in DOMAIN rec \cup {"Tip"} |-> IF key = "Tip" THEN val ELSE rec[key]]

\* the value given to last_rec['Tip'] by a continuation line
AppendTipNoJoin(prev, raw_line) == prev \o Clean(raw_line)
AppendTip(prev, raw_line) ==
    IF prev # <<>> THEN prev \o <<"\n">> \o Clean(raw_line) ELSE Clean(raw_line)

\* the test of a continuation line, made when the accumulator is empty
IsContinuationOffByOne(raw_line, hs) ==
    ~NewRecMatch(raw_line) /\ Count(raw_line, Pipe) <= Len(hs) - 1
IsContinuation(raw_line, hs) ==
    ~NewRecMatch(raw_line) /\ Count(raw_line, Pipe) < Len(hs) - 1


\* the local variables of parse_pipe_text before the loop
StartState == [buf_lines |-> <<>>, records |-> <<>>, last_rec |-> 0, raised |-> FALSE]

\* one iteration of the for loop over lines
LineStep(ps, raw_line, hs) ==
    IF ps.buf_lines = <<>> /\ IsContinuation(raw_line, hs)
    THEN IF ps.last_rec # 0
         THEN [ps EXCEPT !.records[ps.last_rec] =
                            SetTip(@, AppendTip(GetTip(@), raw_line))]
         ELSE ps
    ELSE LET bl  == Append(ps.buf_lines, raw_line)
             buf == Join(bl)
         IN  IF Count(buf, Pipe) < Len(hs) - 1
             THEN [ps EXCEPT !.buf_lines = bl]
             ELSE LET parts == Parts(buf, hs)
                  IN  IF BuildRaises(parts, hs)
                      THEN [ps EXCEPT !.raised = TRUE]
                      ELSE [ps EXCEPT !.buf_lines = <<>>,
                                      !.records = Append(@, BuildRecord(parts, hs)),
                                      !.last_rec = Len(ps.records) + 1]

FinalStepDropsAccumulator(ps, hs) == ps
\* the code after the loop: the accumulator left over becomes a last record
FinalStep(ps, hs) ==
    IF ps.buf_lines = <<>> THEN ps
    ELSE LET parts == Parts(Join(ps.buf_lines), hs)
         IN  IF BuildRaises(parts, hs)
             THEN [ps EXCEPT !.raised = TRUE]
             ELSE [ps EXCEPT !.records = Append(@, BuildRecord(parts, hs))]

RECURSIVE RunLines(_, _, _)
RunLines(ps, ls, hs) ==
    IF ls = <<>> \/ ps.raised THEN ps
    ELSE RunLines(LineStep(ps, ls[1], hs), From(ls, 2), hs)

\* parse_pipe_text(text, headers): the records returned
parse_pipe_text(t, hs) ==
    LET ps == RunLines(StartState, InputLines(t), hs)
    IN  IF ps.raised THEN ps.records ELSE FinalStep(ps, hs).records

----------------------------------------------------------------------------
(* The inputs of the model *)

Alphabet == {Pipe, "\n", "\r", "1", "a", " "}

\* the end-to-end scenario: V.1|3| / 1|Sword|A sharp / blade. / 2|Shield|Round
EndToEndText ==
    <<"V", ".", "1", "|", "3", "|", "\n">>
    \o <<"1", "|", "S", "w", "o", "r", "d", "|", "A", " ", "s", "h", "a", "r", "p", "\n">>
    \o <<"b", "l", "a", "d", "e", ".", "\n">>
    \o <<"2", "|", "S", "h", "i", "e", "l", "d", "|", "R", "o", "u", "n", "d">>

LinePieces ==
    { <<"1", "|", "a", "\n">>,
      <<"1", "|", "a", "|", "b", "\n">>,
      <<"b", "\n">>,
      <<"|", "b", "|", "\n">>,
      <<"\n">>,
      <<"2", "|", "|", "c", "\r", "\n">>,
      <<"a", "|", "b", "|", "c", "\n">>,
      <<"V", ".", "1", "|", "3", "|", "\n">>,
      <<BOM>> }

Texts ==
    UNION {[1..n -> Alphabet] : n \in 0..MaxLen}
    \cup {Join(ps) : ps \in UNION {[1..n -> LinePieces] : n \in 0..MaxLines}}
    \cup {EndToEndText}

Schemas ==
    { <<>>,
      <<"Id">>,
      <<"Id", "Tip">>,
      <<"Id", "tip">>,
      <<"Id", "Name", "Tip">>,
      <<"Id", "Name", "Desc">> }

----------------------------------------------------------------------------
(* parse_pipe_text as a state machine: one step per loop iteration *)

\* Python's None, where the code holds a number or None
None == -1

\* open_file is not running
OpenIdle ==
    /\ app = "ini_editor"
    /\ imported = TRUE
    /\ otext = <<>>
    /\ hfiles = <<>>
    /\ hi = 1
    /\ meta_cols = None
    /\ loaded = <<>>
    /\ hdrs = <<>>
    /\ chosen = FALSE
    /\ passed = <<>>
    /\ view = "none"
    /\ table = [headers |-> <<>>, records |-> <<>>]
    /\ opc = "idle"

\* is_pipe_file of parser_refactored.py is not running
ClassifierIdle ==
    /\ ctext = <<>>
    /\ cheaders = <<>>
    /\ clines = <<>>
    /\ verdict = FALSE
    /\ cpc = "idle"

\* a file that does not exist, and a file holding the text d
NoFile == [exists |-> FALSE, data |-> <<>>]
File(d) == [exists |-> TRUE, data |-> d]

SaveIdle ==
    /\ cur = NoFile
    /\ tmpf = NoFile
    /\ bakf = NoFile
    /\ oldc = NoFile
    /\ newc = <<>>
    /\ spc = "idle"

ViewerIdle ==
    /\ opens = <<>>
    /\ has_widgets = FALSE
    /\ widgets_live = FALSE
    /\ wpc = "idle"

BatchIdle ==
    /\ bvariant = "item_table_view"
    /\ brecords = <<>>
    /\ tree = <<>>
    /\ index = 0
    /\ batch_size = 1
    /\ cancelled = FALSE
    /\ alive = TRUE
    /\ bpc = "idle"

Init ==
    /\ text \in Texts
    /\ headers \in Schemas
    /\ lines = <<>>
    /\ idx = 1
    /\ buf_lines = <<>>
    /\ records = <<>>
    /\ last_rec = 0
    /\ raised = FALSE
    /\ pc = "start"
    /\ variant = "detect_encoding"
    /\ cands = <<>>
    /\ k = 1
    /\ best = 0
    /\ best_score = 0
    /\ used = 0
    /\ dpc = "idle"
    /\ ClassifierIdle
    /\ OpenIdle
    /\ SaveIdle
    /\ ViewerIdle
    /\ BatchIdle

Locals == [buf_lines |-> buf_lines, records |-> records,
           last_rec |-> last_rec, raised |-> raised]

SetLocals(ps) ==
    /\ buf_lines' = ps.buf_lines
    /\ records' = ps.records
    /\ last_rec' = ps.last_rec
    /\ raised' = ps.raised

\* lines 164-178: the locals are set and the metadata line is removed
Begin ==
    /\ pc = "start"
    /\ lines' = InputLines(text)
    /\ SetLocals(StartState)
    /\ idx' = 1
    /\ pc' = "loop"
    /\ UNCHANGED <<saveVars, viewerVars, batchVars, text, headers, detectorVars, classifierVars, openVars>>

Iterate ==
    /\ SetLocals(LineStep(Locals, lines[idx], headers))
    /\ idx' = idx + 1
    /\ pc' = IF raised' THEN "done" ELSE "loop"
    /\ UNCHANGED <<saveVars, viewerVars, batchVars, text, headers, lines, detectorVars, classifierVars, openVars>>

\* lines 183-198: a continuation line goes to the Tip of the previous record
ContinuationLine ==
    /\ pc = "loop" /\ idx <= Len(lines)
    /\ buf_lines = <<>> /\ IsContinuation(lines[idx], headers)
    /\ Iterate

\* lines 199-202: the line joins the accumulator, which stays incomplete
Accumulate ==
    /\ pc = "loop" /\ idx <= Len(lines)
    /\ ~(buf_lines = <<>> /\ IsContinuation(lines[idx], headers))
    /\ Count(Join(Append(buf_lines, lines[idx])), Pipe) < Len(headers) - 1
    /\ Iterate

\* lines 199-221: the line completes the accumulator and a record is emitted
EmitRecord ==
    /\ pc = "loop" /\ idx <= Len(lines)
    /\ ~(buf_lines = <<>> /\ IsContinuation(lines[idx], headers))
    /\ Count(Join(Append(buf_lines, lines[idx])), Pipe) >= Len(headers) - 1
    /\ Iterate

\* lines 223-243: the input is exhausted
Finish ==
    /\ pc = "loop" /\ idx > Len(lines)
    /\ SetLocals(FinalStep(Locals, headers))
    /\ pc' = "done"
    /\ UNCHANGED <<saveVars, viewerVars, batchVars, text, headers, lines, idx, detectorVars, classifierVars, openVars>>

Next == Begin \/ ContinuationLine \/ Accumulate \/ EmitRecord \/ Finish

Spec == Init /\ [][Next]_vars

TypeOK ==
    /\ pc \in {"start", "loop", "done"}
    /\ idx \in 1..(Len(lines) + 1)
    /\ last_rec \in 0..Len(records)
    /\ raised \in BOOLEAN

\* the state machine and the function agree on the result
MachineIsFunction == pc = "done" => records = parse_pipe_text(text, headers)


----------------------------------------------------------------------------
(* Properties of parse_pipe_text *)

SchemaKeys == {headers[i] : i \in 1..Len(headers)}
Returned == pc = "done" /\ ~raised
ExpectedSeparators == Len(headers) - 1
TipIsLast == Len(headers) >= 2 /\ headers[Len(headers)] = "Tip"
NoBOM == \A j \in 1..Len(text) : text[j] # BOM

\* C1: every record returned has exactly one entry per schema field, and
\* no other entry, whatever the lines of the text are
C1_PaddingInvariant ==
    (Returned /\ NoBOM) =>
        \A i \in 1..Len(records) :
            /\ DOMAIN records[i] = SchemaKeys
            /\ Cardinality(DOMAIN records[i]) = Len(headers)

SwordRecord ==
    [Id |-> <<"1">>, Name |-> <<"S", "w", "o", "r", "d">>,
     Tip |-> <<"A", " ", "s", "h", "a", "r", "p", "\n", "b", "l", "a", "d", "e", ".">>]
ShieldRecord ==
    [Id |-> <<"2">>, Name |-> <<"S", "h", "i", "e", "l", "d">>,
     Tip |-> <<"R", "o", "u", "n", "d">>]
EndToEndCase == text = EndToEndText /\ headers = <<"Id", "Name", "Tip">>

\* C2: the end-to-end scenario returns the Sword record, with its two-line
\* Tip, and then the Shield record, and nothing else
C2_EndToEnd == (pc = "done" /\ EndToEndCase) => records = <<SwordRecord, ShieldRecord>>
C2_Witness == pc = "done" /\ EndToEndCase /\ Len(records) = 2

\* a line without its terminator
StripTerminator(line) ==
    IF Len(line) >= 2 /\ line[Len(line) - 1] = "\r" /\ line[Len(line)] = "\n"
    THEN SubSeq(line, 1, Len(line) - 2)
    ELSE IF line # <<>> /\ line[Len(line)] \in LineBoundary
         THEN SubSeq(line, 1, Len(line) - 1)
         ELSE line

\* the text after the first n delimiters of s
RECURSIVE AfterPipes(_, _)
AfterPipes(s, n) ==
    IF n = 0 \/ s = <<>> THEN s
    ELSE AfterPipes(From(s, 2), IF s[1] = Pipe THEN n - 1 ELSE n)

\* s without one leading and one trailing delimiter
StripOnePipe(s) ==
    LET a == IF s # <<>> /\ s[1] = Pipe THEN From(s, 2) ELSE s
    IN  IF a # <<>> /\ a[Len(a)] = Pipe THEN SubSeq(a, 1, Len(a) - 1) ELSE a

RECURSIVE JoinNewline(_)
JoinNewline(ls) ==
    IF ls = <<>> THEN <<>>
    ELSE IF Len(ls) = 1 THEN ls[1]
         ELSE ls[1] \o <<"\n">> \o JoinNewline(From(ls, 2))

\* a complete record line followed only by lines that are not id-prefixed
\* and have fewer than N-1 delimiters
RecordThenContinuations ==
    /\ TipIsLast
    /\ Len(lines) >= 1
    /\ NewRecMatch(lines[1]) /\ Count(lines[1], Pipe) >= ExpectedSeparators
    /\ \A i \in 2..Len(lines) :
          ~NewRecMatch(lines[i]) /\ Count(lines[i], Pipe) < ExpectedSeparators

ReassembledTip ==
    JoinNewline([i \in 1..Len(lines) |->
        StripOnePipe(IF i = 1
                     THEN AfterPipes(StripTerminator(lines[1]), ExpectedSeparators)
                     ELSE StripTerminator(lines[i]))])

\* C3: a record line followed by K continuation lines gives a Tip that is
\* the K+1 line texts, terminators removed, joined by single newlines
C3_TipPreservation ==
    (Returned /\ RecordThenContinuations) =>
        /\ Len(records) = 1
        /\ "Tip" \in DOMAIN records[1]
        /\ records[1]["Tip"] = ReassembledTip

\* every id-prefixed line is a complete record line, and the first line is one
RecordsWithTipContent ==
    /\ TipIsLast
    /\ Len(lines) >= 1
    /\ NewRecMatch(lines[1])
    /\ \A i \in 1..Len(lines) :
          NewRecMatch(lines[i]) => Count(lines[i], Pipe) >= ExpectedSeparators

\* C4: with Tip as the last field, as many records are returned as there are
\* record-start lines, whatever delimiters the other lines contain
C4_NoTipSplitting ==
    (Returned /\ RecordsWithTipContent) =>
        Len(records) = Cardinality({i \in 1..Len(lines) : NewRecMatch(lines[i])})

IsRecord(r) == DOMAIN r \subseteq SchemaKeys \cup {"Tip"}

\* C5: no exception escapes parse_pipe_text, and what it returns is a
\* sequence of records
C5_NeverRaises ==
    /\ ~raised
    /\ pc = "done" => \A i \in 1..Len(records) : IsRecord(records[i])
\* a row with too few parts was flushed at the end of the input
C5_Witness ==
    /\ pc = "done" /\ ~raised
    /\ buf_lines # <<>>
    /\ Count(Join(buf_lines), Pipe) < ExpectedSeparators
    /\ Len(records) >= 2

NoDelimiter == Count(text, Pipe) = 0

\* C6 as stated: a text without delimiters gives a single record whose
\* fields after the first are empty, and the empty text gives no record
C6_SingleRecordOrNone ==
    (Returned /\ NoDelimiter /\ NoBOM /\ Len(headers) >= 1) =>
        IF text = <<>> THEN records = <<>>
        ELSE /\ Len(records) = 1
             /\ \A i \in 2..Len(headers) : records[1][headers[i]] = <<>>

\* number of lines of a text: its terminators, CR LF counted once, plus an
\* unterminated last line
RECURSIVE NumLines(_)
NumLines(s) ==
    IF s = <<>> THEN 0
    ELSE IF s[1] \in LineBoundary
         THEN 1 + NumLines(From(s, IF s[1] = "\r" /\ Len(s) >= 2 /\ s[2] = "\n" THEN 3 ELSE 2))
         ELSE IF Len(s) = 1 THEN 1 ELSE NumLines(From(s, 2))

\* C6 amended: without delimiters a schema of two or more fields gives no
\* record at all, a shorter schema gives one record per line
C6_NoDelimiterRecords ==
    (Returned /\ NoDelimiter) =>
        IF Len(headers) >= 2 THEN records = <<>>
        ELSE Len(records) = NumLines(LStripSet(text, {BOM}))
C6_Witness ==
    /\ Returned /\ NoDelimiter
    /\ Len(headers) = 1 /\ Len(records) = 2

\* C7: a non-empty text with exactly N-1 delimiters, that does not begin with
\* a metadata line, gives exactly one record with N entries (stated here
\* for schemas of two or more fields)
C7_OneRecordByFieldCount ==
    (Returned /\ Len(headers) >= 2 /\ text # <<>> /\ NoBOM
        /\ ~MetaMatch(Strip(SplitLines(text)[1]))
        /\ Count(text, Pipe) = ExpectedSeparators) =>
        /\ Len(records) = 1
        /\ Cardinality(DOMAIN records[1]) = Len(headers)

\* well-formed metadata lines V.<n>|<cols>|
MetaLines ==
    { <<"V", ".", "1", "|", "3", "|", "\n">>,
      <<"V", ".", "1", "6", "|", "9", "3", "|", "\r", "\n">> }

\* a record text: no byte-order mark and no metadata line of its own
RecordText ==
    /\ text = LStripSet(text, {BOM})
    /\ text # <<>> => ~MetaMatch(Strip(SplitLines(text)[1]))

\* C8: a metadata line put in front of a record text changes neither the
\* number nor the content of the records
C8_MetadataPrefix ==
    (Returned /\ RecordText) =>
        \A m \in MetaLines : parse_pipe_text(m \o text, headers) = records
C8_Witness ==
    /\ Returned /\ RecordText
    /\ Len(headers) = 3 /\ Len(records) >= 2
    /\ \E i \in 1..Len(lines) : MetaMatch(Strip(lines[i]))


\* a line that begins with <digits>|
IdPrefixed(line) ==
    LET d == Span(line, Digit)
    IN  d >= 1 /\ Len(line) > d /\ line[d + 1] = Pipe

\* C17: an id-prefixed line starts a new record: when the loop reaches such
\* a line, no text of an earlier line is waiting in the accumulator to share
\* a record with it
C17_IdLineStartsRecord ==
    (pc = "loop" /\ idx <= Len(lines) /\ Len(headers) >= 1
        /\ IdPrefixed(lines[idx])) => buf_lines = <<>>

\* the text of s before its first delimiter (all of s when it has none)
BeforePipe(s) == SubSeq(s, 1, IF FirstPipe(s) = 0 THEN Len(s) ELSE FirstPipe(s) - 1)

\* the i-th of n fields of a row: between the first n-1 delimiters for
\* i < n, the entire remainder for i = n
Piece(row, i, n) ==
    IF i < n THEN BeforePipe(AfterPipes(row, i - 1)) ELSE AfterPipes(row, n - 1)

\* whitespace trimming, or for the Tip field the edge strip
Trimmed(key, val) ==
    IF key \in {"Tip", "tip", "TIP"} THEN StripOnePipe(RStripNewline(val)) ELSE Strip(val)

\* the accumulated row about to be completed by the current line
CurrentRow == RStripNewline(Join(Append(buf_lines, lines[idx])))

\* the loop is at a line that completes a row with more than N-1 delimiters
OverlongRow ==
    /\ pc = "loop" /\ idx <= Len(lines) /\ Len(headers) >= 1
    /\ ~(buf_lines = <<>> /\ IsContinuation(lines[idx], headers))
    /\ Count(CurrentRow, Pipe) > Len(headers) - 1

\* C18: a row with more than N-1 delimiters becomes exactly one record whose
\* fields 1..N-1 are the texts between the first N-1 delimiters and whose
\* last field is the whole remainder, further delimiters kept
C18_ExcessDelimitersInLastField ==
    [][OverlongRow =>
        /\ ~raised'
        /\ Len(records') = Len(records) + 1
        /\ buf_lines' = <<>>
        /\ \A i \in 1..Len(headers) :
              \* a later field of the same name overwrites an earlier one
              (\A j \in (i + 1)..Len(headers) : headers[j] # headers[i]) =>
                 records'[Len(records')][headers[i]]
                    = Trimmed(headers[i], Piece(CurrentRow, i, Len(headers)))
        /\ DOMAIN records'[Len(records')] = SchemaKeys]_vars
C18_Witness ==
    /\ pc = "done" /\ ~raised /\ Len(headers) = 3 /\ Len(lines) = 1
    /\ Count(lines[1], Pipe) = 4
    /\ Len(records) = 1
    /\ Count(records[1][headers[3]], Pipe) >= 1

\* the input is exhausted
InputExhausted == pc = "loop" /\ idx > Len(lines)

\* the i-th field of the row left in the accumulator: the text between its
\* delimiters, the empty string for a field the row does not reach
LeftoverField(row, i) ==
    IF i <= Count(row, Pipe) + 1
    THEN Trimmed(headers[i], BeforePipe(AfterPipes(row, i - 1)))
    ELSE <<>>

\* C21: at the end of the input a non-empty accumulator, which has fewer
\* than N-1 delimiters, gives exactly one more record, split and assigned as
\* any other row and with its missing trailing fields empty; an empty
\* accumulator gives no record
C21_FinalRecord ==
    [][InputExhausted =>
        /\ ~raised'
        /\ IF buf_lines # <<>>
           THEN LET row == RStripNewline(Join(buf_lines))
                IN  /\ Count(Join(buf_lines), Pipe) < Len(headers) - 1
                    /\ Len(records') = Len(records) + 1
                    /\ SubSeq(records', 1, Len(records)) = records
                    /\ DOMAIN records'[Len(records')] = SchemaKeys
                    /\ \A i \in 1..Len(headers) :
                          records'[Len(records')][headers[i]] = LeftoverField(row, i)
           ELSE records' = records]_vars
C21_Witness ==
    /\ pc = "done" /\ ~raised /\ Len(headers) = 3 /\ Len(lines) = 2
    /\ Count(Join(lines), Pipe) = 1
    /\ IdPrefixed(lines[1])
    /\ Len(records) = 1
    /\ records[1][headers[2]] # <<>>
    /\ records[1][headers[3]] = <<>>

\* the schema fields spelled Tip in any letter case
TipFields == {i \in 1..Len(headers) : Lower(headers[i]) = "tip"}

\* the loop is at a continuation line that follows a completed record
ContinuationAfterRecord ==
    /\ pc = "loop" /\ idx <= Len(lines)
    /\ buf_lines = <<>> /\ IsContinuation(lines[idx], headers)
    /\ last_rec # 0

\* C19: a continuation line after a completed record is appended to the
\* schema's Tip field of the previous record, whatever the letter case of
\* that field's name, and no other key of the record is written
C19_ContinuationToSchemaTip ==
    [][(ContinuationAfterRecord /\ TipFields # {}) =>
        LET f == headers[CHOOSE i \in TipFields : TRUE]
            old == records[last_rec]
            new == records'[last_rec]
        IN  /\ DOMAIN new = DOMAIN old
            /\ new[f] = AppendTip(old[f], lines[idx])
            /\ \A key \in DOMAIN old \ {f} : new[key] = old[key]]_vars

\* the lines of the text; the first non-blank one removed when it matches
\* the metadata pattern
LinesAfterMetadata ==
    LET ls == SplitLines(LStripSet(text, {BOM}))
        nonblank == {j \in 1..Len(ls) : Strip(ls[j]) # <<>>}
        first == CHOOSE j \in nonblank : \A j2 \in nonblank : j <= j2
    IN  IF nonblank # {} /\ MetaMatch(Strip(ls[first]))
        THEN SubSeq(ls, 1, first - 1) \o From(ls, first + 1)
        ELSE ls

\* C20: the first non-empty line is removed when it matches the metadata
\* pattern, also when blank lines precede it, and no other line is removed
C20_LeadingMetadataRemoved ==
    (pc \in {"loop", "done"} /\ Len(headers) >= 1) => lines = LinesAfterMetadata


----------------------------------------------------------------------------
(* The encoding detector: detect_encoding (ini_editor_refactored.py),      *)
(* read_text_with_encodings (ini_editor.py) and the head of                *)
(* parse_pipe_file (parser.py)                                             *)

Variants == {"detect_encoding", "read_text_with_encodings", "parse_pipe_file"}

\* length of the second literal counted by detect_encoding and
\* read_text_with_encodings
ArtLen == 2

\* numbers of CJK code points of a decode, around the ratio 100 / 10 of the
\* two weights of the score
CjkCounts == {0, 1, 10, 11}

\* numbers of occurrences of the second literal, and of other characters,
\* in a decode
ArtCounts == {0, 1}
PlainCounts == {0, 1}

\* raw.decode(enc, errors='replace') raised (unknown encoding)
Undecodable == [ok |-> FALSE, fffd |-> 0, art |-> 0, cjk |-> 0, len |-> 0]

\* the outcomes of raw.decode(enc, errors='replace'): whether it returned,
\* and the counts of U+FFFD, of the second literal and of CJK code points
\* in the decode, and its length
Decodes ==
    {Undecodable} \cup
    { [ok |-> TRUE, fffd |-> f, art |-> a, cjk |-> c,
       len |-> f + c + ArtLen * a + p] :
        f \in 0..MaxFffd, a \in ArtCounts, c \in CjkCounts, p \in PlainCounts }

\* txt.count('�') + txt.count(<second literal>); in parse_pipe_file the
\* second literal is the empty string, which str.count finds len + 1 times
ReplEditor(d) == d.fffd + d.art
ReplParseFile(d) == d.fffd + (d.len + 1)
Repl(v, d) == IF v = "parse_pipe_file" THEN ReplParseFile(d) ELSE ReplEditor(d)

\* score = cjk * 10 - repl * 100
ScoreEqualWeights(v, d) == d.cjk * 10 - Repl(v, d) * 10
Score(v, d) == d.cjk * 10 - Repl(v, d) * 100

\* if best_score is None or score > best_score
Retains(b, bs, score) == b = 0 \/ score > bs

InitDetect ==
    /\ variant \in Variants
    /\ cands \in UNION {[1..n -> Decodes] : n \in 0..MaxCands}
    /\ k = 1
    /\ best = 0
    /\ best_score = 0
    /\ used = 0
    /\ dpc = "loop"
    /\ text = <<>>
    /\ headers = <<>>
    /\ lines = <<>>
    /\ idx = 1
    /\ buf_lines = <<>>
    /\ records = <<>>
    /\ last_rec = 0
    /\ raised = FALSE
    /\ pc = "idle"
    /\ ClassifierIdle
    /\ OpenIdle
    /\ SaveIdle
    /\ ViewerIdle
    /\ BatchIdle

\* the decode raised: continue
SkipCandidate ==
    /\ dpc = "loop" /\ k <= Len(cands)
    /\ ~cands[k].ok
    /\ k' = k + 1
    /\ UNCHANGED <<saveVars, viewerVars, batchVars, variant, cands, best, best_score, used, dpc, parserVars, classifierVars, openVars>>

\* the candidate becomes the best one
RetainCandidate ==
    /\ dpc = "loop" /\ k <= Len(cands)
    /\ cands[k].ok
    /\ Retains(best, best_score, Score(variant, cands[k]))
    /\ best' = k
    /\ best_score' = Score(variant, cands[k])
    /\ k' = k + 1
    /\ UNCHANGED <<saveVars, viewerVars, batchVars, variant, cands, used, dpc, parserVars, classifierVars, openVars>>

\* the candidate does not beat the best one
KeepBest ==
    /\ dpc = "loop" /\ k <= Len(cands)
    /\ cands[k].ok
    /\ ~Retains(best, best_score, Score(variant, cands[k]))
    /\ k' = k + 1
    /\ UNCHANGED <<saveVars, viewerVars, batchVars, variant, cands, best, best_score, used, dpc, parserVars, classifierVars, openVars>>

\* after the loop: the best candidate is returned
ReturnBest ==
    /\ dpc = "loop" /\ k > Len(cands)
    /\ best # 0
    /\ used' = best
    /\ dpc' = "done"
    /\ UNCHANGED <<saveVars, viewerVars, batchVars, variant, cands, k, best, best_score, parserVars, classifierVars, openVars>>

\* after the loop: nothing was decoded, latin-1 is used
ReturnFallback ==
    /\ dpc = "loop" /\ k > Len(cands)
    /\ best = 0
    /\ used' = 0
    /\ dpc' = "done"
    /\ UNCHANGED <<saveVars, viewerVars, batchVars, variant, cands, k, best, best_score, parserVars, classifierVars, openVars>>

NextDetect ==
    SkipCandidate \/ RetainCandidate \/ KeepBest \/ ReturnBest \/ ReturnFallback

SpecDetect == InitDetect /\ [][NextDetect]_vars

----------------------------------------------------------------------------
(* Properties of the encoding detector *)

InEditor == variant \in {"detect_encoding", "read_text_with_encodings"}
Decoded == {i \in 1..Len(cands) : cands[i].ok}

\* candidate i is the only one whose decode has no replacement character,
\* and every other candidate has a decode with at least one
OnlyClean(i) ==
    /\ i \in Decoded /\ Repl(variant, cands[i]) = 0
    /\ \A j \in 1..Len(cands) :
          j # i => (j \in Decoded /\ Repl(variant, cands[j]) >= 1)

\* C9 as stated: the only candidate that decodes without replacement
\* characters is returned, whatever its rank and the CJK counts
C9_OnlyCleanSelected ==
    (dpc = "done" /\ InEditor) =>
        \A i \in 1..Len(cands) : OnlyClean(i) => used = i

\* every other candidate has fewer than 10 CJK code points per replacement
\* character more than candidate i
NoCjkOutweighs(i) ==
    \A j \in 1..Len(cands) :
        j # i => cands[j].cjk - cands[i].cjk < 10 * Repl(variant, cands[j])

\* C9 amended: the only clean candidate is returned, at any rank, when no
\* other candidate has 10 or more CJK code points per replacement character
\* more than it has
C9_OnlyCleanSelectedUnlessCjk ==
    (dpc = "done" /\ InEditor) =>
        \A i \in 1..Len(cands) : (OnlyClean(i) /\ NoCjkOutweighs(i)) => used = i
\* the clean candidate is the last of the list and another has more CJK
C9_Witness ==
    /\ dpc = "done" /\ InEditor
    /\ Len(cands) >= 2
    /\ OnlyClean(Len(cands)) /\ NoCjkOutweighs(Len(cands))
    /\ cands[1].cjk > cands[Len(cands)].cjk
    /\ used = Len(cands)

\* 10 * (CJK code points) - 100 * (replacement artifacts)
StatedScore(d) == 10 * d.cjk - 100 * (d.fffd + d.art)

\* C10: the candidate returned is the earliest of those with the highest
\* score 10 * CJK - 100 * artifacts, and latin-1 when nothing decodes
C10_ReturnsEarliestMaximum ==
    dpc = "done" =>
        IF Decoded = {} THEN used = 0
        ELSE /\ used \in Decoded
             /\ \A j \in Decoded : StatedScore(cands[j]) <= StatedScore(cands[used])
             /\ \A j \in Decoded :
                   StatedScore(cands[j]) = StatedScore(cands[used]) => used <= j

\* C10 in the two copies of the editor, where the claim holds
EditorReturnsEarliestMaximum == InEditor => C10_ReturnsEarliestMaximum

\* the loop over the candidates from candidate i on, with the best candidate
\* b and its score bs so far; 0 stands for the latin-1 fallback
RECURSIVE DetectFrom(_, _, _, _, _)
DetectFrom(v, cs, i, b, bs) ==
    IF i > Len(cs) THEN b
    ELSE IF cs[i].ok /\ Retains(b, bs, Score(v, cs[i]))
         THEN DetectFrom(v, cs, i + 1, i, Score(v, cs[i]))
         ELSE DetectFrom(v, cs, i + 1, b, bs)

\* the candidate whose decode and name read_text_with_encodings returns
read_text_with_encodings(cs) == DetectFrom("read_text_with_encodings", cs, 1, 0, 0)

\* C24: parse_pipe_file returns the encoding that read_text_with_encodings
\* returns on the same bytes and candidate list (and so parses the same
\* decoded text)
C24_ParseFileAgreesWithEditor ==
    (/\ dpc = "done" /\ variant = "parse_pipe_file"
     /\ \A j \in Decoded : cands[j].len >= 1)
        => used = read_text_with_encodings(cands)

\* the state machine of the editor's copy returns what the loop returns
EditorIsFunction ==
    (dpc = "done" /\ variant = "read_text_with_encodings") =>
        used = read_text_with_encodings(cands)

----------------------------------------------------------------------------
(* The structural classifier: is_pipe_file of parser_refactored.py *)

\* id_pattern = re.compile(r'^\d+\|'), matched against a stripped line
IdPatternMatch(ln) ==
    LET d == Span(ln, Digit)
    IN  d >= 1 /\ Len(ln) > d /\ ln[d + 1] = Pipe

\* [ln.strip() for ln in text.splitlines() if ln.strip()]
NonBlankLines(t) ==
    LET ls == SplitLines(t)
        stripped == [j \in 1..Len(ls) |-> Strip(ls[j])]
    IN  SelectSeq(stripped, LAMBDA ln : ln # <<>>)

\* skip_metadata_lines: every line that matches META_REGEX is left out
skip_metadata_lines(ls) == SelectSeq(ls, LAMBDA ln : ~MetaMatch(Strip(ln)))

\* lines[:n]
Prefix(ls, n) == SubSeq(ls, 1, IF Len(ls) < n THEN Len(ls) ELSE n)

\* sum(1 for ln in lines[:20] if id_pattern.match(ln))
IdCount(ls) ==
    Cardinality({j \in 1..Len(Prefix(ls, 20)) : IdPatternMatch(ls[j])})

\* len(headers) - 1 with headers, 3 without
ExpectedPipes(hs) == IF hs # <<>> THEN Len(hs) - 1 ELSE 3

\* the for loops over lines[:10]
SomeLineQualifies(ls, hs) ==
    \E j \in 1..Len(Prefix(ls, 10)) :
        IdPatternMatch(ls[j]) /\ Count(ls[j], Pipe) >= ExpectedPipes(hs)

\* is_pipe_file(text, headers) of parser_refactored.py
is_pipe_file_structural(t, hs) ==
    LET ls == skip_metadata_lines(NonBlankLines(t))
    IN  /\ Len(NonBlankLines(t)) >= 5
        /\ IdCount(ls) >= 5
        /\ SomeLineQualifies(ls, hs)

\* the lines the classifier texts are made of
ClassifierLines ==
    { <<"1", "|", "a", "\n">>,
      <<"2", "|", "|", "|", "\n">>,
      <<"x", "|", "|", "|", "\n">>,
      <<"V", ".", "1", "|", "3", "|", "\n">>,
      <<" ", "\n">> }

\* how often a line is repeated in a run
RunLengths == {1, 4, 5, 10, 16}

RECURSIVE Repeat(_, _)
Repeat(line, n) == IF n = 0 THEN <<>> ELSE line \o Repeat(line, n - 1)

RECURSIVE JoinRuns(_)
JoinRuns(rs) ==
    IF rs = <<>> THEN <<>>
    ELSE Repeat(rs[1][1], rs[1][2]) \o JoinRuns(From(rs, 2))

ClassifierTexts ==
    UNION {{JoinRuns(rs) : rs \in [1..n -> ClassifierLines \X RunLengths]} : n \in 0..MaxRuns}

ClassifierSchemas ==
    { <<>>, <<"Id", "Name">>, <<"Id", "Name", "Desc", "Tip">> }

ParserIdle ==
    /\ text = <<>>
    /\ headers = <<>>
    /\ lines = <<>>
    /\ idx = 1
    /\ buf_lines = <<>>
    /\ records = <<>>
    /\ last_rec = 0
    /\ raised = FALSE
    /\ pc = "idle"

DetectorIdle ==
    /\ variant = "detect_encoding"
    /\ cands = <<>>
    /\ k = 1
    /\ best = 0
    /\ best_score = 0
    /\ used = 0
    /\ dpc = "idle"

InitClassify ==
    /\ ctext \in ClassifierTexts
    /\ cheaders \in ClassifierSchemas
    /\ clines = <<>>
    /\ verdict = FALSE
    /\ cpc = "start"
    /\ ParserIdle
    /\ DetectorIdle
    /\ OpenIdle
    /\ SaveIdle
    /\ ViewerIdle
    /\ BatchIdle

Return(v) ==
    /\ verdict' = v
    /\ cpc' = "done"

\* lines 225-227: fewer than 5 non-blank lines
RejectFewLines ==
    /\ cpc = "start"
    /\ Len(NonBlankLines(ctext)) < 5
    /\ clines' = NonBlankLines(ctext)
    /\ Return(FALSE)
    /\ UNCHANGED <<saveVars, viewerVars, batchVars, ctext, cheaders, parserVars, detectorVars, openVars>>

\* lines 225-230: the metadata lines are left out
SkipMetadata ==
    /\ cpc = "start"
    /\ Len(NonBlankLines(ctext)) >= 5
    /\ clines' = skip_metadata_lines(NonBlankLines(ctext))
    /\ cpc' = "count"
    /\ UNCHANGED <<saveVars, viewerVars, batchVars, ctext, cheaders, verdict, parserVars, detectorVars, openVars>>

\* lines 233-237: fewer than 5 id-prefixed lines among the first 20
RejectFewIds ==
    /\ cpc = "count"
    /\ IdCount(clines) < 5
    /\ Return(FALSE)
    /\ UNCHANGED <<saveVars, viewerVars, batchVars, ctext, cheaders, clines, parserVars, detectorVars, openVars>>

\* lines 233-237: at least 5 id-prefixed lines among the first 20
EnoughIds ==
    /\ cpc = "count"
    /\ IdCount(clines) >= 5
    /\ cpc' = "pipes"
    /\ UNCHANGED <<saveVars, viewerVars, batchVars, ctext, cheaders, clines, verdict, parserVars, detectorVars, openVars>>

\* lines 240-244: with headers, a line of the first 10 has len(headers)-1 pipes
AcceptWithHeaders ==
    /\ cpc = "pipes"
    /\ cheaders # <<>>
    /\ SomeLineQualifies(clines, cheaders)
    /\ Return(TRUE)
    /\ UNCHANGED <<saveVars, viewerVars, batchVars, ctext, cheaders, clines, parserVars, detectorVars, openVars>>

\* lines 245-249: without headers, a line of the first 10 has 3 pipes
AcceptWithoutHeaders ==
    /\ cpc = "pipes"
    /\ cheaders = <<>>
    /\ SomeLineQualifies(clines, cheaders)
    /\ Return(TRUE)
    /\ UNCHANGED <<saveVars, viewerVars, batchVars, ctext, cheaders, clines, parserVars, detectorVars, openVars>>

\* line 251: no line of the first 10 qualifies
RejectDelimiters ==
    /\ cpc = "pipes"
    /\ ~SomeLineQualifies(clines, cheaders)
    /\ Return(FALSE)
    /\ UNCHANGED <<saveVars, viewerVars, batchVars, ctext, cheaders, clines, parserVars, detectorVars, openVars>>

NextClassify ==
    \/ RejectFewLines \/ SkipMetadata \/ RejectFewIds \/ EnoughIds
    \/ AcceptWithHeaders \/ AcceptWithoutHeaders \/ RejectDelimiters

SpecClassify == InitClassify /\ [][NextClassify]_vars

ClassifierIsFunction ==
    cpc = "done" => verdict = is_pipe_file_structural(ctext, cheaders)

----------------------------------------------------------------------------
(* Claims about the structural classifier *)

\* the non-blank lines of the text, the leading metadata line removed
LinesWithoutLeadingMetadata ==
    LET ls == NonBlankLines(ctext)
    IN  IF ls # <<>> /\ MetaMatch(ls[1]) THEN From(ls, 2) ELSE ls

\* the first 20 of them
First20 == Prefix(LinesWithoutLeadingMetadata, 20)

IdLines20 == {j \in 1..Len(First20) : IdPrefixed(First20[j])}

\* the delimiter count an id-prefixed line has to reach
RequiredDelimiters == IF cheaders # <<>> THEN Len(cheaders) - 1 ELSE 3

\* C11: fewer than 5 id-prefixed lines among the first 20 non-blank lines
\* classify negative; at least 5, one of them with the required delimiter
\* count, classify positive
C11_ClassifierBoundary ==
    cpc = "done" =>
        /\ Cardinality(IdLines20) < 5 => ~verdict
        /\ (/\ Cardinality(IdLines20) >= 5
            /\ \E j \in IdLines20 : Count(First20[j], Pipe) >= RequiredDelimiters)
              => verdict

----------------------------------------------------------------------------
(* Opening a file: load_headers and is_pipe_file of parser.py, and          *)
(* open_file of ini_editor.py and of ini_editor_refactored.py               *)

Apps == {"ini_editor", "ini_editor_refactored"}

\* the content of a header file is a sequence of symbols: a comma, a
\* whitespace character, or a field name written as one symbol
Comma == ","

RECURSIVE SplitComma(_)
SplitComma(s) ==
    LET hits == {j \in 1..Len(s) : s[j] = Comma}
        j == CHOOSE j \in hits : \A j2 \in hits : j <= j2
    IN  IF hits = {} THEN <<s>>
        ELSE <<SubSeq(s, 1, j - 1)>> \o SplitComma(From(s, j + 1))

\* load_headers: [h.strip() for h in s.strip().split(',') if h.strip()]
load_headers(s) ==
    LET cells == SplitComma(Strip(s))
        kept == SelectSeq(cells, LAMBDA h : Strip(h) # <<>>)
    IN  [j \in 1..Len(kept) |-> Strip(kept[j])[1]]

is_pipe_file_first_line(t, hs) ==
    LET ls == InputLines(t)
    IN  ls # <<>> /\ Count(ls[1], Pipe) >= Len(hs) - 1

\* is_pipe_file(text, headers) of parser.py
is_pipe_file(t, hs) ==
    LET ls == InputLines(t)
        full == {j \in 1..Len(ls) : Count(Join(SubSeq(ls, 1, j)), Pipe) >= Len(hs) - 1}
        j == CHOOSE j \in full : \A j2 \in full : j <= j2
    IN  /\ full # {}
        /\ Len(Split(RStripNewline(Join(SubSeq(ls, 1, j))), Len(hs) - 1)) >= Len(hs)

\* group 1 of re.match(r'^[\|\s]*V\.\d+\|(\d+)\|', s), <<>> when s does not match
MetaGroup(s) ==
    LET a  == From(s, Span(s, Whitespace \cup {Pipe}) + 1)
        b  == From(a, 3)
        d1 == Span(b, Digit)
        c  == From(b, d1 + 2)
        d2 == Span(c, Digit)
    IN  IF /\ Len(a) >= 2 /\ a[1] = "V" /\ a[2] = "."
           /\ d1 >= 1
           /\ Len(b) > d1 /\ b[d1 + 1] = Pipe
           /\ d2 >= 1
           /\ Len(c) > d2 /\ c[d2 + 1] = Pipe
        THEN SubSeq(c, 1, d2)
        ELSE <<>>

\* int(m.group(1))
RECURSIVE ToInt(_)
ToInt(ds) ==
    IF ds = <<>> THEN 0
    ELSE ToInt(SubSeq(ds, 1, Len(ds) - 1)) * 10
         + (CHOOSE n \in 0..9 : ToString(n) = ds[Len(ds)])

\* the first of the first 5 lines that matches gives the column count
MetaColumnsFirst5(t) ==
    LET ls == Prefix(SplitLines(t), 5)
        hits == {j \in 1..Len(ls) : MetaGroup(Strip(ls[j])) # <<>>}
        j == CHOOSE j \in hits : \A j2 \in hits : j <= j2
    IN  IF hits = {} THEN None ELSE ToInt(MetaGroup(Strip(ls[j])))

\* only the first non-blank line is tried
MetaColumnsFirstNonBlank(t) ==
    LET ls == SplitLines(t)
        nonblank == {j \in 1..Len(ls) : Strip(ls[j]) # <<>>}
        j == CHOOSE j \in nonblank : \A j2 \in nonblank : j <= j2
    IN  IF nonblank = {} \/ MetaGroup(Strip(ls[j])) = <<>> THEN None
        ELSE ToInt(MetaGroup(Strip(ls[j])))

\* the largest number of '|' on a line, 0 for a text without lines
MaxPipeCount(t) ==
    LET ls == SplitLines(t)
        counts == {Count(ls[j], Pipe) : j \in 1..Len(ls)} \cup {0}
    IN  CHOOSE m \in counts : \A m2 \in counts : m2 <= m

ColumnsFromPipesNoPlusOne(t) == IF MaxPipeCount(t) >= 2 THEN MaxPipeCount(t) ELSE None
ColumnsFromPipes(t) == IF MaxPipeCount(t) >= 2 THEN MaxPipeCount(t) + 1 ELSE None

\* ncols: from the metadata line, otherwise from the line with most pipes
SynthColumns(a, t) ==
    LET m == IF a = "ini_editor" THEN MetaColumnsFirstNonBlank(t)
                                 ELSE MetaColumnsFirst5(t)
    IN  IF m # None THEN m ELSE ColumnsFromPipes(t)

\* f'Unknown {i}'
UnknownName(i) == "Unknown " \o ToString(i)

\* [f'Unknown {i}' for i in range(lo, hi)]
UnknownRange(lo, stop) ==
    [j \in 1..(IF stop > lo THEN stop - lo ELSE 0) |-> UnknownName(lo + j - 1)]

\* the synthesized schema; <<>> when none is synthesized
generate_unknown_headers(a, t) ==
    LET ncols == SynthColumns(a, t)
    IN  IF ncols # None /\ ncols # 0 /\ ncols >= 1 THEN UnknownRange(0, ncols) ELSE <<>>

\* the adjustment of a loaded schema to the column count c of the metadata
AdjustHeaders(a, hs, c) ==
    LET applies == IF a = "ini_editor" THEN c # None ELSE c # None /\ c # 0
    IN  IF applies /\ Len(hs) # c
        THEN IF Len(hs) > c THEN SubSeq(hs, 1, c)
             ELSE hs \o UnknownRange(Len(hs), c)
        ELSE hs

\* the lines the opened texts are made of
OpenPieces ==
    { <<"1", "|", "a", "\n">>,
      <<"1", "|", "a", "|", "b", "\n">>,
      <<"x", "\n">>,
      <<"\n">>,
      <<"V", ".", "1", "|", "3", "|", "\n">>,
      <<"V", ".", "1", "|", "5", "\n">>,
      <<"V", ".", "1", "|", "0", "|", "\n">>,
      <<"a", "|", "b", "\n">>,
      <<BOM>> }

\* the end-to-end scenario without its metadata line
ScenarioText == From(EndToEndText, 8)

\* five rows of three fields
FiveRows == Repeat(<<"1", "|", "a", "|", "b", "\n">>, 5)

OpenTexts ==
    UNION {{Join(ps) : ps \in [1..n -> OpenPieces]} : n \in 0..MaxOpenLines}
    \cup {EndToEndText, ScenarioText, FiveRows}

HeaderContents ==
    { <<>>,
      <<",", " ", ",", "\n">>,
      <<"Id", "\n">>,
      <<"Id", ",", "Name">>,
      <<" ", "Id", ",", "Name", ",", ",", "Tip", "\n">>,
      <<"Id", ",", "Name", ",", "Desc", ",", "Tip">> }

\* a header file: its content, or unreadable (load_headers raises)
HeaderFiles ==
    {[readable |-> TRUE, content |-> c] : c \in HeaderContents}
    \cup {[readable |-> FALSE, content |-> <<>>]}

InitOpen ==
    /\ app \in Apps
    /\ imported \in BOOLEAN
    /\ otext \in OpenTexts
    /\ hfiles \in UNION {[1..n -> HeaderFiles] : n \in 0..MaxHeaderFiles}
    /\ hi = 1
    /\ meta_cols = None
    /\ loaded = <<>>
    /\ hdrs = <<>>
    /\ chosen = FALSE
    /\ passed = <<>>
    /\ view = "none"
    /\ table = [headers |-> <<>>, records |-> <<>>]
    /\ opc = "start"
    /\ ParserIdle
    /\ DetectorIdle
    /\ ClassifierIdle
    /\ SaveIdle
    /\ ViewerIdle
    /\ BatchIdle

Call(fn, hs) == [fn |-> fn, schema |-> hs]

\* data_parser is None: the pipe branch is skipped
NoParserModule ==
    /\ opc = "start" /\ ~imported
    /\ opc' = "ini"
    /\ UNCHANGED <<saveVars, viewerVars, batchVars, app, imported, otext, hfiles, hi, meta_cols, loaded, hdrs,
                   chosen, passed, view, table,
                   parserVars, detectorVars, classifierVars>>

\* the metadata line is looked for in the first 5 lines
DetectMetadata ==
    /\ opc = "start" /\ imported
    /\ meta_cols' = MetaColumnsFirst5(otext)
    /\ hi' = 1
    /\ opc' = "headers"
    /\ UNCHANGED <<saveVars, viewerVars, batchVars, app, imported, otext, hfiles, loaded, hdrs, chosen, passed,
                   view, table,
                   parserVars, detectorVars, classifierVars>>

\* load_headers raised: continue
UnreadableHeader ==
    /\ opc = "headers" /\ hi <= Len(hfiles)
    /\ ~hfiles[hi].readable
    /\ hi' = hi + 1
    /\ UNCHANGED <<saveVars, viewerVars, batchVars, app, imported, otext, hfiles, meta_cols, loaded, hdrs,
                   chosen, passed, view, table, opc,
                   parserVars, detectorVars, classifierVars>>

\* a header file is loaded, adjusted and tried with is_pipe_file
TryHeader(accept) ==
    /\ opc = "headers" /\ hi <= Len(hfiles)
    /\ hfiles[hi].readable
    /\ LET ld == load_headers(hfiles[hi].content)
           hs == AdjustHeaders(app, ld, meta_cols)
       IN  /\ is_pipe_file(otext, hs) = accept
           /\ loaded' = ld
           /\ hdrs' = hs
           /\ passed' = Append(passed, Call("is_pipe_file", hs))
    /\ chosen' = accept
    /\ hi' = IF accept THEN hi ELSE hi + 1
    /\ opc' = IF accept THEN "parse" ELSE "headers"
    /\ UNCHANGED <<saveVars, viewerVars, batchVars, app, imported, otext, hfiles, meta_cols, view, table,
                   parserVars, detectorVars, classifierVars>>

\* is_pipe_file returned False: the next header file is tried
HeaderRejected ==
    /\ opc = "headers"
    /\ TryHeader(FALSE)

\* is_pipe_file returned True: break
HeaderChosen ==
    /\ opc = "headers"
    /\ TryHeader(TRUE)

\* the text is parsed with the schema and shown as a table
ShowTable(hs) ==
    /\ passed' = Append(passed, Call("parse_pipe_text", hs))
    /\ table' = [headers |-> hs, records |-> parse_pipe_text(otext, hs)]
    /\ view' = "table"
    /\ opc' = "done"

\* the chosen header is used
ShowChosen ==
    /\ opc = "parse"
    /\ ShowTable(hdrs)
    /\ UNCHANGED <<saveVars, viewerVars, batchVars, app, imported, otext, hfiles, hi, meta_cols, loaded, hdrs, chosen,
                   parserVars, detectorVars, classifierVars>>

\* no header file was accepted
NoHeaderLeft ==
    /\ opc = "headers" /\ hi > Len(hfiles)
    /\ opc' = "synth"
    /\ UNCHANGED <<saveVars, viewerVars, batchVars, app, imported, otext, hfiles, hi, meta_cols, loaded, hdrs,
                   chosen, passed, view, table,
                   parserVars, detectorVars, classifierVars>>

\* Unknown headers are generated and used
ShowSynthesized ==
    /\ opc = "synth"
    /\ generate_unknown_headers(app, otext) # <<>>
    /\ hdrs' = generate_unknown_headers(app, otext)
    /\ ShowTable(hdrs')
    /\ UNCHANGED <<saveVars, viewerVars, batchVars, app, imported, otext, hfiles, hi, meta_cols, loaded, chosen,
                   parserVars, detectorVars, classifierVars>>

\* no column count can be determined
NothingSynthesized ==
    /\ opc = "synth"
    /\ generate_unknown_headers(app, otext) = <<>>
    /\ opc' = "ini"
    /\ UNCHANGED <<saveVars, viewerVars, batchVars, app, imported, otext, hfiles, hi, meta_cols, loaded, hdrs,
                   chosen, passed, view, table,
                   parserVars, detectorVars, classifierVars>>

\* configparser read the text, or the file: the INI editor is filled
OpenAsIni ==
    /\ opc = "ini"
    /\ view' = "ini"
    /\ opc' = "done"
    /\ UNCHANGED <<saveVars, viewerVars, batchVars, app, imported, otext, hfiles, hi, meta_cols, loaded, hdrs,
                   chosen, passed, table,
                   parserVars, detectorVars, classifierVars>>

\* configparser raised (no section header, or both reads failed): raw text
OpenAsRaw ==
    /\ opc = "ini"
    /\ view' = "raw"
    /\ opc' = "done"
    /\ UNCHANGED <<saveVars, viewerVars, batchVars, app, imported, otext, hfiles, hi, meta_cols, loaded, hdrs,
                   chosen, passed, table,
                   parserVars, detectorVars, classifierVars>>

NextOpen ==
    \/ NoParserModule \/ DetectMetadata \/ UnreadableHeader
    \/ HeaderRejected \/ HeaderChosen \/ ShowChosen \/ NoHeaderLeft
    \/ ShowSynthesized \/ NothingSynthesized \/ OpenAsIni \/ OpenAsRaw

SpecOpen == InitOpen /\ [][NextOpen]_vars

----------------------------------------------------------------------------
(* Claims about opening a file *)

OpenLines == SplitLines(otext)

\* no call was made with an empty schema
NonEmptySchemas == \A i \in 1..Len(passed) : passed[i].schema # <<>>

\* fewer than 5 of the first 20 non-blank lines are id-prefixed
FewIdLines ==
    LET ls == Prefix(NonBlankLines(otext), 20)
    IN  Cardinality({j \in 1..Len(ls) : IdPrefixed(ls[j])}) < 5

\* no line has 2 delimiters
LowDelimiterCount == \A j \in 1..Len(OpenLines) : Count(OpenLines[j], Pipe) < 2

\* C12: a text with fewer than 5 id-prefixed lines among its first 20
\* non-blank lines, or with fewer than 2 delimiters on every line, is not
\* shown as a record table: open_file ends in the INI or the raw-text view
C12_NegativeFallsBack ==
    (opc = "done" /\ NonEmptySchemas /\ (FewIdLines \/ LowDelimiterCount)) =>
        view \in {"ini", "raw"}

\* no line of the text is a metadata line
NoMetadataLine == \A j \in 1..Len(OpenLines) : ~MetaMatch(Strip(OpenLines[j]))

\* the largest number of delimiters on a single line
LargestDelimiterCount ==
    CHOOSE m \in 0..Len(otext) :
        /\ \A j \in 1..Len(OpenLines) : Count(OpenLines[j], Pipe) <= m
        /\ m = 0 \/ \E j \in 1..Len(OpenLines) : Count(OpenLines[j], Pipe) = m

ParseCalls == {i \in 1..Len(passed) : passed[i].fn = "parse_pipe_text"}

\* C13: without a metadata line and without a known schema, the schema is
\* Unknown 0 .. Unknown m for the largest per-line delimiter count m >= 2,
\* and no schema is synthesized for m < 2; the scenario text gives
\* Unknown 0, Unknown 1, Unknown 2
C13_SynthesizedSchema ==
    (opc = "done" /\ imported /\ ~chosen /\ NoMetadataLine) =>
        LET m == LargestDelimiterCount
        IN  /\ m >= 2 =>
                /\ view = "table"
                /\ table.headers = [i \in 1..(m + 1) |-> "Unknown " \o ToString(i - 1)]
                /\ \A i \in ParseCalls : passed[i].schema = table.headers
            /\ m < 2 => view # "table" /\ ParseCalls = {}
            /\ otext = ScenarioText =>
                table.headers = <<"Unknown 0", "Unknown 1", "Unknown 2">>
C13_Witness ==
    /\ opc = "done" /\ imported /\ ~chosen
    /\ otext = ScenarioText
    /\ view = "table"
    /\ Len(table.headers) = 3 /\ Len(table.records) = 2

\* C14: every schema handed to is_pipe_file or parse_pipe_text has at least
\* one field
C14_SchemaNeverEmpty == \A i \in 1..Len(passed) : Len(passed[i].schema) >= 1

\* the text begins with a metadata line that parse_pipe_text removes
ParserStripsFirstLine ==
    LET ls == SplitLines(LStripSet(otext, {BOM}))
    IN  ls # <<>> /\ MetaMatch(Strip(ls[1]))

\* the column count written on that line: the digits after V.<digits>|
DeclaredColumns ==
    LET s == Strip(SplitLines(LStripSet(otext, {BOM}))[1])
        a == From(s, Span(s, Whitespace \cup {Pipe}) + 1)
        b == From(a, 3)
        c == From(b, Span(b, Digit) + 2)
    IN  ToInt(SubSeq(c, 1, Span(c, Digit)))

\* C15: when the text begins with a metadata line that the parser strips,
\* parse_pipe_text is called with a schema of exactly the declared number of
\* fields
C15_DeclaredCountGoverns ==
    (ParserStripsFirstLine /\ NonEmptySchemas) =>
        \A i \in ParseCalls : Len(passed[i].schema) = DeclaredColumns

\* a header file was just loaded and adjusted to a declared column count
JustAdjusted ==
    /\ passed # <<>> /\ passed[Len(passed)].fn = "is_pipe_file"
    /\ meta_cols # None

\* C16: the adjusted schema has exactly c names, the first min(len, c)
\* loaded names in order and then Unknown i for i from len to c-1, and
\* adjusting it again to c changes nothing
C16_Reconciliation ==
    JustAdjusted =>
        LET c == meta_cols
            n == Len(loaded)
        IN  /\ Len(hdrs) = c
            /\ \A i \in 1..Len(hdrs) :
                  hdrs[i] = IF i <= n THEN loaded[i] ELSE "Unknown " \o ToString(i - 1)
            /\ AdjustHeaders(app, hdrs, c) = hdrs

\* the calls of is_pipe_file made so far
PipeFileCalls == {i \in 1..Len(passed) : passed[i].fn = "is_pipe_file"}

\* the i-th call returned True: the loop over the header files stops at the
\* first call that does
ReturnedTrue(i) == chosen /\ i \in PipeFileCalls /\ \A i2 \in PipeFileCalls : i2 <= i

\* the text left after the byte-order marks and a leading metadata line
TextLeft ==
    LET ls == SplitLines(LStripSet(otext, {BOM}))
    IN  IF ls # <<>> /\ MetaMatch(Strip(ls[1])) THEN Join(From(ls, 2)) ELSE Join(ls)

\* C22: for a schema of N >= 1 fields is_pipe_file returns true exactly when
\* the text left after a leading metadata line is non-empty and holds at
\* least N-1 delimiters in all, wherever they are
C22_PipeFileByDelimiterTotal ==
    \A i \in PipeFileCalls :
        Len(passed[i].schema) >= 1 =>
            (ReturnedTrue(i) <=>
                (TextLeft # <<>> /\ Count(TextLeft, Pipe) >= Len(passed[i].schema) - 1))
C22_Witness ==
    /\ opc = "parse" /\ chosen /\ Len(hdrs) = 3
    /\ Len(OpenLines) = 2
    /\ Count(OpenLines[1], Pipe) = 1 /\ ~IdPrefixed(OpenLines[1])
    /\ Count(OpenLines[2], Pipe) = 1

\* C23: when is_pipe_file returned true for a text and a schema,
\* parse_pipe_text returns at least one record for them
C23_AcceptedTextHasRecords ==
    (/\ opc = "done" /\ chosen /\ NonEmptySchemas
     /\ \E i \in PipeFileCalls : ReturnedTrue(i) /\ passed[i].schema = table.headers)
        => Len(table.records) >= 1

----------------------------------------------------------------------------
(* The refactored parser: parse_pipe_text of parser_refactored.py *)

\* is_continuation_line: not CONTINUATION_REGEX.match(line.strip())
is_continuation_line(line) == ~IdPatternMatch(Strip(line))

\* clean_tip_field: value.lstrip('|').rstrip('|')
clean_tip_field(value) == RStripSet(LStripSet(value, {Pipe}), {Pipe})

\* the main line of a record: continuation lines are added to the first line
\* until the expected separators are there
RECURSIVE ExtendMainLine(_, _, _)
ExtendMainLine(main, rest, seps) ==
    IF rest = <<>> THEN main
    ELSE LET longer == main \o <<"\n">> \o rest[1]
         IN  IF Count(longer, Pipe) >= seps THEN longer
             ELSE ExtendMainLine(longer, From(rest, 2), seps)

\* value += '\n' + cont_line for every continuation line of the record
RECURSIVE AddContinuations(_, _)
AddContinuations(value, rest) ==
    IF rest = <<>> THEN value
    ELSE AddContinuations(
            IF is_continuation_line(rest[1]) THEN value \o <<"\n">> \o rest[1] ELSE value,
            From(rest, 2))

\* _parse_record_lines: the record of an accumulator of stripped lines
parse_record_lines(ls, hs) ==
    LET main == IF Count(ls[1], Pipe) < Len(hs) - 1
                THEN ExtendMainLine(ls[1], From(ls, 2), Len(hs) - 1)
                ELSE ls[1]
        parts == Pad(Split(main, Len(hs)), Len(hs))
    IN  [key \in {hs[i] : i \in 1..Len(hs)} |->
            LET i == CHOOSE j \in 1..Len(hs) :
                        /\ hs[j] = key
                        /\ \A j2 \in 1..Len(hs) : hs[j2] = key => j2 <= j
            IN  IF Lower(key) = "tip"
                THEN clean_tip_field(AddContinuations(parts[i], From(ls, 2)))
                ELSE Strip(parts[i])]

\* build_records: the loop over the lines, with the records and the
\* accumulator so far, and the flush of the last accumulator
RECURSIVE build_records_from(_, _, _, _)
build_records_from(ls, hs, recs, acc) ==
    IF ls = <<>>
    THEN IF acc # <<>> THEN Append(recs, parse_record_lines(acc, hs)) ELSE recs
    ELSE LET stripped == Strip(ls[1])
         IN  IF stripped = <<>> THEN build_records_from(From(ls, 2), hs, recs, acc)
             ELSE IF is_continuation_line(stripped) /\ acc # <<>>
                  THEN build_records_from(From(ls, 2), hs, recs, Append(acc, stripped))
                  ELSE build_records_from(From(ls, 2), hs,
                          IF acc # <<>> THEN Append(recs, parse_record_lines(acc, hs))
                          ELSE recs,
                          <<stripped>>)

build_records(ls, hs) == build_records_from(ls, hs, <<>>, <<>>)

\* parse_pipe_text of parser_refactored.py
parse_pipe_text_refactored(t, hs) == build_records(skip_metadata_lines(NonBlankLines(t)), hs)

\* C25: the refactored parse_pipe_text returns the record sequence that
\* parse_pipe_text of parser.py returns, for every text and schema
C25_RefactoredParserAgrees ==
    (Returned /\ Len(headers) >= 1 /\ NoBOM) => parse_pipe_text_refactored(text, headers) = records

----------------------------------------------------------------------------
(* Saving a table back: save_back of item_table_view.py *)

\* '|'.join(parts)
RECURSIVE JoinPipe(_)
JoinPipe(parts) ==
    IF parts = <<>> THEN <<>>
    ELSE IF Len(parts) = 1 THEN parts[1]
         ELSE parts[1] \o <<Pipe>> \o JoinPipe(From(parts, 2))

\* [rec.get(h, '') for h in headers]
RecordParts(rec, hs) ==
    [i \in 1..Len(hs) |-> IF hs[i] \in DOMAIN rec THEN rec[hs[i]] ELSE <<>>]

\* the text save_back writes: for every record the joined parts and '\n'
RECURSIVE save_back(_, _)
save_back(recs, hs) ==
    IF recs = <<>> THEN <<>>
    ELSE JoinPipe(RecordParts(recs[1], hs)) \o <<"\n">> \o save_back(From(recs, 2), hs)

\* C26: the records returned by parse_pipe_text, written by save_back and
\* parsed again with the same schema, are returned again
C26_SaveBackRoundTrip ==
    (Returned /\ Len(headers) >= 1 /\ NoBOM) =>
        parse_pipe_text(save_back(records, headers), headers) = records

----------------------------------------------------------------------------
(* Saving the current file: save_current of ini_editor.py (lines 539-558)  *)
(* and of ini_editor_refactored.py (lines 609-630), which are the same     *)
(* steps                                                                   *)

SaveChars == {"x", "y"}
Contents == UNION {[1..n -> SaveChars] : n \in 0..MaxContent}

\* save_current is called with a current file (which may have been removed
\* since it was opened); a .tmp and a .bak file may be left from earlier saves
InitSave ==
    /\ oldc \in {NoFile} \cup {File(d) : d \in Contents}
    /\ cur = oldc
    /\ newc \in Contents
    /\ tmpf \in {NoFile, File(<<"x">>)}
    /\ bakf \in {NoFile, File(<<"y">>)}
    /\ spc = "open"
    /\ ParserIdle
    /\ DetectorIdle
    /\ ClassifierIdle
    /\ OpenIdle
    /\ ViewerIdle
    /\ BatchIdle

SaveFrame == UNCHANGED <<parserVars, detectorVars, classifierVars, openVars, viewerVars, batchVars>>

\* tmp.open('w', ...): the temporary file is created or truncated
OpenTmp ==
    /\ spc = "open"
    /\ tmpf' = File(<<>>)
    /\ spc' = "write"
    /\ UNCHANGED <<cur, bakf, oldc, newc>>
    /\ SaveFrame

\* tmp.open raises: the error is shown and save_current returns
OpenTmpFails ==
    /\ spc = "open"
    /\ spc' = "open failed"
    /\ UNCHANGED <<cur, tmpf, bakf, oldc, newc>>
    /\ SaveFrame

\* self.cfg.write(fh): one more character reaches the temporary file
WriteTmp ==
    /\ spc = "write"
    /\ Len(tmpf.data) < Len(newc)
    /\ tmpf' = File(Append(tmpf.data, newc[Len(tmpf.data) + 1]))
    /\ UNCHANGED <<cur, bakf, oldc, newc, spc>>
    /\ SaveFrame

\* the write or the close raises: the temporary file keeps what was written
WriteTmpFails ==
    /\ spc = "write"
    /\ spc' = "write failed"
    /\ UNCHANGED <<cur, tmpf, bakf, oldc, newc>>
    /\ SaveFrame

\* the with block ends: everything was written
CloseTmp ==
    /\ spc = "write"
    /\ tmpf.data = newc
    /\ spc' = "backup"
    /\ UNCHANGED <<cur, tmpf, bakf, oldc, newc>>
    /\ SaveFrame

\* self.current_file.replace(bak): the current file is moved to the backup
MoveToBackup ==
    /\ spc = "backup"
    /\ cur.exists
    /\ bakf' = cur
    /\ cur' = NoFile
    /\ spc' = "rename"
    /\ UNCHANGED <<tmpf, oldc, newc>>
    /\ SaveFrame

\* the current file does not exist: no backup is made
NoBackup ==
    /\ spc = "backup"
    /\ ~cur.exists
    /\ spc' = "rename"
    /\ UNCHANGED <<cur, tmpf, bakf, oldc, newc>>
    /\ SaveFrame

\* replace raises and shutil.copy2 copies the current file to the backup
CopyToBackup ==
    /\ spc = "backup"
    /\ cur.exists
    /\ bakf' = cur
    /\ spc' = "rename"
    /\ UNCHANGED <<cur, tmpf, oldc, newc>>
    /\ SaveFrame

\* replace raises and shutil.copy2 raises: the error is shown
BackupFails ==
    /\ spc = "backup"
    /\ cur.exists
    /\ spc' = "backup failed"
    /\ UNCHANGED <<cur, tmpf, bakf, oldc, newc>>
    /\ SaveFrame

\* tmp.replace(self.current_file): the temporary file becomes the current file
RenameTmp ==
    /\ spc = "rename"
    /\ cur' = tmpf
    /\ tmpf' = NoFile
    /\ spc' = "saved"
    /\ UNCHANGED <<bakf, oldc, newc>>
    /\ SaveFrame

\* tmp.replace raises: the error is shown
RenameTmpFails ==
    /\ spc = "rename"
    /\ spc' = "rename failed"
    /\ UNCHANGED <<cur, tmpf, bakf, oldc, newc>>
    /\ SaveFrame

NextSave ==
    \/ OpenTmp \/ OpenTmpFails \/ WriteTmp \/ WriteTmpFails \/ CloseTmp
    \/ MoveToBackup \/ NoBackup \/ CopyToBackup \/ BackupFails
    \/ RenameTmp \/ RenameTmpFails

SpecSave == InitSave /\ [][NextSave]_vars

\* C27: at every step of a save of an existing file, and after a failure
\* of any step, the current path holds the complete previous content or
\* the complete new content
C27_AtomicSave ==
    (spc # "idle" /\ oldc.exists) => cur \in {oldc, File(newc)}

----------------------------------------------------------------------------
(* The viewer frame across open_file calls: open_file, show_raw_text,      *)
(* populate_ini_ui and ensure_ini_widgets of ini_editor.py; the refactored *)
(* editor has the same steps (_ensure_ini_widgets tests one attribute)     *)

\* the editor after __init__: the viewer holds the placeholder and no INI
\* widget was ever created
InitViewer ==
    /\ opens = <<>>
    /\ has_widgets = FALSE
    /\ widgets_live = FALSE
    /\ wpc = "idle"
    /\ ParserIdle
    /\ DetectorIdle
    /\ ClassifierIdle
    /\ OpenIdle
    /\ SaveIdle
    /\ BatchIdle

ViewerFrame == UNCHANGED <<parserVars, detectorVars, classifierVars, openVars, saveVars, batchVars>>

\* open_file shows a table: every child of the viewer frame is destroyed
\* and the table view is embedded
OpenTableView ==
    /\ wpc = "idle" /\ Len(opens) < MaxOpens
    /\ widgets_live' = FALSE
    /\ opens' = Append(opens, "table")
    /\ UNCHANGED <<has_widgets, wpc>>
    /\ ViewerFrame

\* show_raw_text: every child of the viewer frame is destroyed and the raw
\* text is shown
OpenRawView ==
    /\ wpc = "idle" /\ Len(opens) < MaxOpens
    /\ widgets_live' = FALSE
    /\ opens' = Append(opens, "raw")
    /\ UNCHANGED <<has_widgets, wpc>>
    /\ ViewerFrame

\* open_file parsed the text with configparser and calls populate_ini_ui
OpenIniView ==
    /\ wpc = "idle" /\ Len(opens) < MaxOpens
    /\ wpc' = "ensure"
    /\ UNCHANGED <<opens, has_widgets, widgets_live>>
    /\ ViewerFrame

\* ensure_ini_widgets: the attributes are set, return
EnsureReturns ==
    /\ wpc = "ensure"
    /\ has_widgets
    /\ wpc' = "fill"
    /\ UNCHANGED <<opens, has_widgets, widgets_live>>
    /\ ViewerFrame

\* ensure_ini_widgets: the viewer is cleared and the widgets are created
EnsureCreates ==
    /\ wpc = "ensure"
    /\ ~has_widgets
    /\ has_widgets' = TRUE
    /\ widgets_live' = TRUE
    /\ wpc' = "fill"
    /\ UNCHANGED opens
    /\ ViewerFrame

\* populate_ini_ui fills the section list, the key table and the editor
FillWidgets ==
    /\ wpc = "fill"
    /\ widgets_live
    /\ opens' = Append(opens, "ini")
    /\ wpc' = "idle"
    /\ UNCHANGED <<has_widgets, widgets_live>>
    /\ ViewerFrame

\* self.sections_lb.delete on a destroyed widget raises TclError
FillRaises ==
    /\ wpc = "fill"
    /\ ~widgets_live
    /\ opens' = Append(opens, "error")
    /\ wpc' = "idle"
    /\ UNCHANGED <<has_widgets, widgets_live>>
    /\ ViewerFrame

NextViewer ==
    \/ OpenTableView \/ OpenRawView \/ OpenIniView
    \/ EnsureReturns \/ EnsureCreates \/ FillWidgets \/ FillRaises

SpecViewer == InitViewer /\ [][NextViewer]_vars

\* C28: whenever a file is opened as INI, after table, raw and INI views in
\* any order, the section list, the key table and the value editor exist
\* and are live when they are filled
C28_IniWidgetsLive ==
    wpc = "fill" => (has_widgets /\ widgets_live)

----------------------------------------------------------------------------
(* Loading the table in batches: insert_batch of item_table_view.py and    *)
(* BatchInserter, add_row and edit_cell of item_table_view_refactored.py.  *)
(* A record is the text of its row; batch_size is 500 in the code and is   *)
(* drawn from 1..MaxBatch here                                             *)

TableViews == {"item_table_view", "item_table_view_refactored"}
RowValues == {"a", "b"}
Refactored == bvariant = "item_table_view_refactored"

\* show_item_table built the widgets: item_table_view.py schedules the first
\* batch with container.after, BatchInserter.start runs it at once
InitBatch ==
    /\ bvariant \in TableViews
    /\ brecords \in UNION {[1..n -> RowValues] : n \in 0..MaxRecords}
    /\ tree = <<>>
    /\ index = 0
    /\ batch_size \in 1..MaxBatch
    /\ cancelled = FALSE
    /\ alive = TRUE
    /\ bpc = IF Refactored THEN "starting" ELSE "scheduled"
    /\ ParserIdle
    /\ DetectorIdle
    /\ ClassifierIdle
    /\ OpenIdle
    /\ SaveIdle
    /\ ViewerIdle

BatchFrame == UNCHANGED <<parserVars, detectorVars, classifierVars, openVars, saveVars, viewerVars>>

Pending == bpc \in {"starting", "scheduled"}

\* min(start + batch_size, len(records))
BatchEnd == IF index + batch_size < Len(brecords) THEN index + batch_size ELSE Len(brecords)

\* int((self.index / len(self.records)) * 100) divides by zero
ProgressRaises == Refactored /\ Len(brecords) = 0

\* one tick: the records from the load index to the end of the batch are
\* inserted at the end of the tree, and the next tick is scheduled if
\* records are left
InsertBatch ==
    /\ Pending /\ ~cancelled /\ alive
    /\ ~ProgressRaises
    /\ tree' = tree \o SubSeq(brecords, index + 1, BatchEnd)
    /\ index' = BatchEnd
    /\ bpc' = IF BatchEnd < Len(brecords) THEN "scheduled" ELSE "finished"
    /\ UNCHANGED <<bvariant, brecords, batch_size, cancelled, alive>>
    /\ BatchFrame

\* one tick of BatchInserter with an empty list: ZeroDivisionError
InsertBatchRaises ==
    /\ Pending /\ ~cancelled /\ alive
    /\ ProgressRaises
    /\ bpc' = "raised"
    /\ UNCHANGED <<bvariant, brecords, tree, index, batch_size, cancelled, alive>>
    /\ BatchFrame

\* one tick after a cancel or a destroy: the loader stops
InsertBatchStops ==
    /\ Pending /\ (cancelled \/ ~alive)
    /\ cancelled' = TRUE
    /\ bpc' = "stopped"
    /\ UNCHANGED <<bvariant, brecords, tree, index, batch_size, alive>>
    /\ BatchFrame

\* the cancel button
CancelLoad ==
    /\ bpc = "scheduled" /\ ~cancelled /\ alive
    /\ cancelled' = TRUE
    /\ UNCHANGED <<bvariant, brecords, tree, index, batch_size, alive, bpc>>
    /\ BatchFrame

\* the table view is destroyed (another file is opened, the window closes)
DestroyView ==
    /\ bpc # "starting" /\ alive
    /\ alive' = FALSE
    /\ cancelled' = (cancelled \/ Refactored)
    /\ UNCHANGED <<bvariant, brecords, tree, index, batch_size, bpc>>
    /\ BatchFrame

\* add_row: the new row goes to the end of the tree and the new record to
\* the end of the list
add_row(v) ==
    /\ tree' = Append(tree, v)
    /\ brecords' = Append(brecords, v)
    /\ UNCHANGED <<bvariant, index, batch_size, cancelled, alive, bpc>>
    /\ BatchFrame

\* the button Adicionar Linha, with the value typed in the dialog
AddRow ==
    /\ Refactored /\ bpc # "starting" /\ alive
    /\ Len(brecords) <= MaxRecords
    /\ \E v \in RowValues : add_row(v)

\* edit_cell on row r: the row takes the new value, and so does the record
\* at the index of the row when there is one
edit_cell(r, v) ==
    /\ tree' = [tree EXCEPT ![r] = v]
    /\ brecords' = IF r <= Len(brecords) THEN [brecords EXCEPT ![r] = v] ELSE brecords
    /\ UNCHANGED <<bvariant, index, batch_size, cancelled, alive, bpc>>
    /\ BatchFrame

\* a double click on a cell of a row, with the value typed in the dialog
EditCell ==
    /\ Refactored /\ bpc # "starting" /\ alive
    /\ \E r \in 1..Len(tree), v \in RowValues : edit_cell(r, v)

NextBatch ==
    \/ InsertBatch \/ InsertBatchRaises \/ InsertBatchStops
    \/ CancelLoad \/ DestroyView \/ AddRow \/ EditCell

SpecBatch == InitBatch /\ [][NextBatch]_vars

\* C29: batch loading of any record list, the empty list included, does
\* not raise, its load index stays between 0 and the number of records, and
\* a load of item_table_view.py that finished left the records in the tree,
\* each once and in index order
C29_BatchLoadFinishes ==
    /\ bpc # "raised"
    /\ index \in 0..Len(brecords)
    /\ (bpc = "finished" /\ ~Refactored) => tree = brecords

\* C30: in the refactored table view the k-th row of the tree displays
\* records[k] and no record is displayed twice, under every interleaving of
\* ticks, add_row and edit_cell
C30_RowsMatchRecords ==
    Refactored =>
        /\ Len(tree) <= Len(brecords)
        /\ \A r \in 1..Len(tree) : tree[r] = brecords[r]

====
